---- MODULE Spec2Model ----
(***************************************************************************)
(* Model of hcid/dbus-test.c (BlueZ hcid): the AuditRemoteDevice and       *)
(* CancelAuditRemoteDevice D-Bus methods, the list of audits, and the      *)
(* GLib callbacks that drive one audit over a raw L2CAP socket.            *)
(*                                                                         *)
(* Every handler of the file is one action.  The GLib main loop is the     *)
(* environment: one iteration polls the registered sources (Poll) and      *)
(* then dispatches, one at a time, the sources found ready, each with the  *)
(* condition recorded by the poll.  D-Bus messages (method calls and the   *)
(* exit of a requestor) are handled by the same loop and may therefore     *)
(* run between two dispatches of one iteration.                            *)
(*                                                                         *)
(* A struct audit is identified by the number of its allocation; memory    *)
(* is never handed out twice, descriptors are never reused, and            *)
(* allocation is taken to succeed.  The contents of a freed struct audit   *)
(* are not tracked: a handler that runs on one re-executes its teardown    *)
(* (a second close, a second free) and the process may abort there.        *)
(***************************************************************************)
EXTENDS Integers, Sequences, FiniteSets

\* ---------------------------------------------------------------- bounds
\* struct audit allocated in one behaviour
MaxAudits == 2

AuditIds == 1..MaxAudits
\* device addresses and D-Bus sender names; the code only compares them
\* for equality (bacmp, strcmp)
Addresses == {1, 2}
Requestors == {1, 2}
\* the address argument of a call: a device address, or 0 for a string that
\* check_address() rejects
AddressArgs == Addresses \cup {0}

\* ------------------------------------------------------- program constants
AUDIT_STATE_MTU == 0
AUDIT_STATE_FEATURES == 1
L2CAP_CMD_HDR_SIZE == 4
L2CAP_INFO_RSP_SIZE == 4
\* recv() is asked for this many bytes
RecvSize == L2CAP_CMD_HDR_SIZE + L2CAP_INFO_RSP_SIZE + 2

VARIABLES
    audits,      \* static struct slist *audits : sequence of audit ids
    audit,       \* the fields of each struct audit (NullAudit when not live)
    allocs,      \* number of struct audit handed out so far
    chanState,   \* per audit: state of the GIOChannel/socket it opened
    closeCount,  \* per audit: g_io_channel_close() calls on its channel
    freeCount,   \* per audit: audit_free() calls on it
    watches,     \* I/O watches registered with the main loop
    timers,      \* timeouts registered with the main loop
    listeners,   \* name listeners: [name, ctx]
    pending,     \* sources found ready by the current loop iteration
    crashed,     \* the process aborted on a double free
    last         \* the handler run by the last step, its inputs and reply

engine == <<audits, audit, allocs, chanState, closeCount, freeCount,
            watches, timers, listeners, pending, crashed>>
vars == <<audits, audit, allocs, chanState, closeCount, freeCount,
          watches, timers, listeners, pending, crashed, last>>

\* -------------------------------------------------------------- sources
\* guint source ids; 0 (no source) is NoSrc
NoSrc == [kind |-> "none", ctx |-> 0, st |-> 0]
ConnectWatch(a) == [kind |-> "connect", ctx |-> a, st |-> 0]
DataWatch(a) == [kind |-> "data", ctx |-> a, st |-> 0]
\* the timeout armed for the wait in protocol state st
Timer(a, st) == [kind |-> "timer", ctx |-> a, st |-> st]

\* memset(audit, 0, sizeof(struct audit))
NullAudit ==
    [addr |-> 0, requestor |-> 0, io |-> 0, io_id |-> NoSrc, timeout |-> NoSrc,
     state |-> AUDIT_STATE_MTU, got_mtu |-> FALSE, got_mask |-> FALSE,
     mtu |-> 0, mask |-> 0]

audit_new_anonymous(sender, addr) == [NullAudit EXCEPT !.addr = addr]

audit_new_timed(sender, addr) ==
    [NullAudit EXCEPT !.requestor = sender, !.addr = addr,
                      !.timeout = [kind |-> "timer", ctx |-> 0, st |-> 0]]

audit_new(sender, addr) ==
    [NullAudit EXCEPT !.requestor = sender, !.addr = addr]

\* ----------------------------------------------------------- list helpers
Range(s) == {s[i] : i \in 1..Len(s)}

slist_append(l, a) == Append(l, a)

slist_remove(l, a) == SelectSeq(l, LAMBDA x : x # a)

audit_addr_cmp_any(a, addr) == TRUE

\* audit_addr_cmp: bacmp(&audit->addr, addr) == 0
audit_addr_cmp(a, addr) == audit[a].addr = addr

\* slist_find(audits, &dba, audit_addr_cmp): first match, 0 when none
slist_find(l, addr) ==
    LET hits == {i \in 1..Len(l) : audit_addr_cmp(l[i], addr)}
    IN  IF hits = {} THEN 0
        ELSE l[CHOOSE i \in hits : \A j \in hits : i <= j]

audit_in_progress_never == FALSE

audit_in_progress_any == Len(audits) > 0

audit_in_progress == \E i \in 1..Len(audits) : audit[audits[i]].io # 0

\* ------------------------------------------------ daemon state (inputs)
ClearData ==
    [disc_active |-> FALSE, pdisc_active |-> FALSE, pinq_idle |-> FALSE,
     bonding |-> FALSE, pin_reqs |-> {}]

DbusData ==
    { ClearData,
      [ClearData EXCEPT !.disc_active = TRUE],
      [ClearData EXCEPT !.pdisc_active = TRUE],
      [ClearData EXCEPT !.pdisc_active = TRUE, !.pinq_idle = TRUE],
      [ClearData EXCEPT !.bonding = TRUE],
      [ClearData EXCEPT !.pin_reqs = {1}] }

\* what the last step ran: the handler, the D-Bus reply it sent ("none" when
\* it sent nothing), the audit it ran on, the audits it freed, and what a
\* response handler decoded (the value it logs with debug())
NoCall ==
    [op |-> "poll", result |-> "none", ctx |-> 0, torn |-> {},
     got |-> FALSE, val |-> 0]

Event(op, a, torn) == [NoCall EXCEPT !.op = op, !.ctx = a, !.torn = torn]

\* ---------------------------------------------------------------- Init
Init ==
    /\ audits = <<>>
    /\ audit = [a \in AuditIds |-> NullAudit]
    /\ allocs = 0
    /\ chanState = [a \in AuditIds |-> "none"]
    /\ closeCount = [a \in AuditIds |-> 0]
    /\ freeCount = [a \in AuditIds |-> 0]
    /\ watches = {}
    /\ timers = {}
    /\ listeners = {}
    /\ pending = {}
    /\ crashed = FALSE
    /\ last = NoCall

\* ------------------------------------------------------ resource helpers
\* g_io_channel_close on the channels of the audits in C
g_io_channel_close(cs, C) == [a \in AuditIds |-> IF a \in C THEN "closed" ELSE cs[a]]

CountClose(cc, C) == [a \in AuditIds |-> IF a \in C /\ cc[a] < 2 THEN cc[a] + 1 ELSE cc[a]]

g_timeout_remove_ignored(ts, T) == ts

\* g_timeout_remove: a removed source is never dispatched, even when the
\* current iteration had found it ready
g_timeout_remove(ts, T) == ts \ T

DropPending(ps, S) == {p \in ps : p.src \notin S}

name_listener_add(ls, name, a) == ls \cup {[name |-> name, ctx |-> a]}

name_listener_remove(ls, name, a) == ls \ {[name |-> name, ctx |-> a]}

\* audit_free on the audits in F: the memory is released; freeing a block
\* twice may abort the process
FreeAll(F) ==
    /\ freeCount' = [a \in AuditIds |->
                        IF a \in F /\ freeCount[a] < 2 THEN freeCount[a] + 1
                        ELSE freeCount[a]]
    /\ crashed' \in IF \E a \in F : freeCount[a] >= 1 THEN BOOLEAN ELSE {FALSE}

\* ------------------------------------------------- AuditRemoteDevice
admission_no_discover_check(address, d) ==
    IF address = 0 THEN "InvalidArguments"
    ELSE IF d.bonding THEN "BondingInProgress"
    ELSE IF address \in d.pin_reqs THEN "BondingInProgress"
    ELSE "ok"

\* the checks before the audit is created: the error returned, or "ok"
admission(address, d) ==
    IF address = 0 THEN "InvalidArguments"
    ELSE IF d.disc_active \/ (d.pdisc_active /\ ~d.pinq_idle) THEN "DiscoverInProgress"
    ELSE IF d.bonding THEN "BondingInProgress"
    ELSE IF address \in d.pin_reqs THEN "BondingInProgress"
    ELSE "ok"

l2raw_connect_failed_ignored(sk) == FALSE

\* sk < 0
l2raw_connect_failed(sk) == sk = "fail"

audit_remote_device_reply_forgotten(adm, failed) ==
    IF adm # "ok" THEN adm
    ELSE IF failed THEN "ConnectionAttemptFailed"
    ELSE "none"

\* the one message the handler sends
audit_remote_device_reply(adm, failed) ==
    IF adm # "ok" THEN adm
    ELSE IF failed THEN "ConnectionAttemptFailed"
    ELSE "Ack"

audit_remote_device(sender, address, d, sk) ==
    LET adm == admission(address, d)
        connects == adm = "ok" /\ ~audit_in_progress
        failed == connects /\ l2raw_connect_failed(sk)
        registers == adm = "ok" /\ ~failed
        a == allocs + 1
    IN  /\ ~crashed
        /\ (sk = "none") <=> ~connects
        /\ registers => allocs < MaxAudits
        /\ last' = [Event("start", IF registers THEN a ELSE 0, {}) EXCEPT
                        !.result = audit_remote_device_reply(adm, failed)]
        /\ IF registers
           THEN /\ allocs' = a
                /\ audit' = [audit EXCEPT ![a] =
                       IF connects
                       THEN [audit_new(sender, address) EXCEPT
                                !.io = a, !.io_id = ConnectWatch(a)]
                       ELSE audit_new(sender, address)]
                /\ chanState' = IF connects THEN [chanState EXCEPT ![a] = "open"]
                                ELSE chanState
                /\ watches' = IF connects THEN watches \cup {ConnectWatch(a)}
                              ELSE watches
                /\ listeners' = name_listener_add(listeners, sender, a)
                /\ audits' = slist_append(audits, a)
                /\ UNCHANGED <<closeCount, freeCount, timers, pending, crashed>>
           ELSE UNCHANGED engine

AuditRemoteDevice ==
    \E sender \in Requestors, address \in AddressArgs, d \in DbusData,
       sk \in {"none", "ok", "fail"} :
        \* the daemon state is not read for an address that does not parse
        /\ address = 0 => d = ClearData
        /\ audit_remote_device(sender, address, d, sk)

\* ---------------------------------------------- CancelAuditRemoteDevice
cancel_authorized_always(a, sender) == TRUE

\* strcmp(audit->requestor, dbus_message_get_sender(msg)) == 0
cancel_authorized(a, sender) == audit[a].requestor = sender

\* if (audit->io) g_io_channel_close(audit->io)
cancel_closes(a) == audit[a].io # 0

cancel_audit_remote_device(sender, address) ==
    LET a == IF address = 0 THEN 0 ELSE slist_find(audits, address)
        result == IF address = 0 THEN "InvalidArguments"
                  ELSE IF a = 0 THEN "NotInProgress"
                  ELSE IF ~cancel_authorized(a, sender) THEN "NotAuthorized"
                  ELSE "Ack"
        T == IF audit[a].timeout # NoSrc THEN {audit[a].timeout} ELSE {}
        C == IF cancel_closes(a) THEN {audit[a].io} ELSE {}
    IN  /\ ~crashed
        /\ last' = [Event("cancel", a, IF result = "Ack" THEN {a} ELSE {}) EXCEPT
                        !.result = result]
        /\ IF result = "Ack"
           THEN /\ chanState' = g_io_channel_close(chanState, C)
                /\ closeCount' = CountClose(closeCount, C)
                /\ timers' = g_timeout_remove(timers, T)
                /\ pending' = DropPending(pending, T)
                /\ audits' = slist_remove(audits, a)
                /\ listeners' = name_listener_remove(listeners, audit[a].requestor, a)
                /\ audit' = [audit EXCEPT ![a] = NullAudit]
                /\ FreeAll({a})
                /\ UNCHANGED <<allocs, watches>>
           ELSE UNCHANGED engine

CancelAuditRemoteDevice ==
    \E sender \in Requestors, address \in AddressArgs :
        cancel_audit_remote_device(sender, address)

\* ------------------------------------------------ audit_requestor_exited
exited_keeps_timer(a) == FALSE

\* if (audit->timeout) g_timeout_remove(audit->timeout)
exited_removes_timer(a) == audit[a].timeout # NoSrc

\* the audits whose name listener is registered for the name
name_listeners_of(ls, name) == {a \in AuditIds : [name |-> name, ctx |-> a] \in ls}

\* the exit of the name: audit_requestor_exited runs for every audit that
\* has a listener for it, and the listeners of the name are dropped
requestor_exited(name) ==
    LET E == name_listeners_of(listeners, name)
        C == {audit[a].io : a \in {b \in E : audit[b].io # 0}}
        T == {audit[a].timeout : a \in {b \in E : exited_removes_timer(b)}}
    IN  /\ ~crashed
        /\ E # {}
        /\ audits' = SelectSeq(audits, LAMBDA x : x \notin E)
        /\ chanState' = g_io_channel_close(chanState, C)
        /\ closeCount' = CountClose(closeCount, C)
        /\ timers' = g_timeout_remove(timers, T)
        /\ pending' = DropPending(pending, T)
        /\ listeners' = {l \in listeners : l.name # name}
        /\ audit' = [a \in AuditIds |-> IF a \in E THEN NullAudit ELSE audit[a]]
        /\ FreeAll(E)
        /\ last' = Event("exit", 0, E)
        /\ UNCHANGED <<allocs, watches>>

RequestorExited == \E name \in Requestors : requestor_exited(name)

\* ------------------------------------------------------- GLib main loop
\* the conditions a watch can be dispatched with: G_IO_NVAL once the
\* descriptor is closed, else an error/hangup or the event it waits for
Conds(w) ==
    IF chanState[w.ctx] # "open" THEN {"NVAL"}
    ELSE IF w.kind = "connect" THEN {"OUT", "ERRHUP"}
    ELSE {"IN", "ERRHUP"}

\* one iteration of the loop finds a set of sources ready; a watch on a
\* closed descriptor is always among them
Ready == {[src |-> w, cond |-> c] : w \in watches, c \in {"NVAL", "OUT", "IN", "ERRHUP"}}
         \cup {[src |-> t, cond |-> "EXPIRED"] : t \in timers}

Poll ==
    /\ ~crashed
    /\ pending = {}
    /\ \E P \in SUBSET {p \in Ready : p.src \in timers \/ p.cond \in Conds(p.src)} :
        /\ P # {}
        /\ \A p, q \in P : p.src = q.src => p = q
        /\ \A w \in watches : chanState[w.ctx] # "open" => \E p \in P : p.src = w
        /\ pending' = P
    /\ last' = NoCall
    /\ UNCHANGED <<audits, audit, allocs, chanState, closeCount, freeCount,
                   watches, timers, listeners, crashed>>

\* the teardown at the failed: labels of the two I/O callbacks, run by the
\* watch w on the audit a
FailedTeardown(w, a, T) ==
    /\ chanState' = g_io_channel_close(chanState, {a})
    /\ closeCount' = CountClose(closeCount, {a})
    /\ audits' = slist_remove(audits, a)
    /\ listeners' = name_listener_remove(listeners, audit[a].requestor, a)
    /\ audit' = [audit EXCEPT ![a] = NullAudit]
    /\ FreeAll({a})
    /\ watches' = watches \ {w}
    /\ timers' = g_timeout_remove(timers, T)
    /\ UNCHANGED allocs

\* ----------------------------------------------------- l2raw_input_timer
l2raw_input_timer(p) ==
    LET a == p.src.ctx
    IN  /\ chanState' = g_io_channel_close(chanState, {a})
        /\ closeCount' = CountClose(closeCount, {a})
        /\ audits' = slist_remove(audits, a)
        /\ listeners' = name_listener_remove(listeners, audit[a].requestor, a)
        /\ audit' = [audit EXCEPT ![a] = NullAudit]
        /\ FreeAll({a})
        /\ timers' = timers \ {p.src}
        /\ pending' = pending \ {p}
        /\ last' = Event("timer", a, {a})
        /\ UNCHANGED <<allocs, watches>>

InputTimer ==
    \E p \in pending :
        /\ ~crashed
        /\ p.src.kind = "timer"
        /\ l2raw_input_timer(p)

\* ------------------------------------------------ l2raw_connect_complete
\* so: "ok", or the step that fails: getsockopt, SO_ERROR # 0, send
l2raw_connect_complete(p, so) ==
    LET w == p.src
        a == w.ctx
    IN  /\ pending' = pending \ {p}
        /\ IF p.cond = "NVAL"
           THEN /\ watches' = watches \ {w}
                /\ last' = Event("connect", a, {})
                /\ UNCHANGED <<audits, audit, allocs, chanState, closeCount,
                               freeCount, timers, listeners, crashed>>
           ELSE IF p.cond = "ERRHUP" \/ so # "ok"
           THEN /\ FailedTeardown(w, a, {})
                /\ last' = Event("connect", a, {a})
           ELSE /\ timers' = timers \cup {Timer(a, audit[a].state)}
                /\ watches' = (watches \ {w}) \cup {DataWatch(a)}
                /\ audit' = [audit EXCEPT ![a].timeout = Timer(a, audit[a].state),
                                          ![a].io_id = DataWatch(a)]
                /\ last' = Event("connect", a, {})
                /\ UNCHANGED <<audits, allocs, chanState, closeCount, freeCount,
                               listeners, crashed>>

ConnectComplete ==
    \E p \in pending, so \in {"ok", "getsockopt", "so_error", "send"} :
        /\ ~crashed
        /\ p.src.kind = "connect"
        \* getsockopt on a closed descriptor fails
        /\ (p.cond = "OUT" /\ chanState[p.src.ctx] # "open") => so = "getsockopt"
        /\ p.cond # "OUT" => so = "ok"
        /\ l2raw_connect_complete(p, so)

\* --------------------------------------------------- l2raw_data_callback
\* the buffer after memset and a recv of n bytes of the response rsp:
\* the result code and the first 16 bits of the data that were received
RecvResult(n, rsp) == IF n >= L2CAP_CMD_HDR_SIZE + L2CAP_INFO_RSP_SIZE THEN rsp.result ELSE 0

RecvData(n, rsp) == IF n >= RecvSize THEN rsp.data % 65536 ELSE 0

handle_mtu_response_any_result(r, n, rsp) ==
    [r EXCEPT !.mtu = RecvData(n, rsp), !.got_mtu = TRUE]

\* case 0x0000: mtu = btohs(...), got_mtu = TRUE; 0x0001 and the other
\* result codes leave the audit as it is
handle_mtu_response(r, n, rsp) ==
    IF RecvResult(n, rsp) = 0
    THEN [r EXCEPT !.mtu = RecvData(n, rsp), !.got_mtu = TRUE]
    ELSE r

handle_features_response(r, n, rsp) ==
    IF RecvResult(n, rsp) = 0
    THEN [r EXCEPT !.mask = RecvData(n, rsp), !.got_mask = TRUE]
    ELSE r

data_callback_keeps_timer(a) == {}

\* if (audit->timeout) g_timeout_remove(audit->timeout)
data_callback_removes(a) ==
    IF audit[a].timeout # NoSrc THEN {audit[a].timeout} ELSE {}

Responses == [result : {0, 1, 2}, data : {500}]

NoResponse == [result |-> 0, data |-> 500]

\* the handler of the current state decodes the response
Decoded(r, n, rsp) ==
    IF r.state = AUDIT_STATE_MTU THEN handle_mtu_response(r, n, rsp)
    ELSE handle_features_response(r, n, rsp)

DataEvent(a, torn, r) ==
    IF r.state = AUDIT_STATE_MTU
    THEN [Event("data", a, torn) EXCEPT !.got = r.got_mtu, !.val = r.mtu]
    ELSE [Event("data", a, torn) EXCEPT !.got = r.got_mask, !.val = r.mask]

data_callback_ends_on_error(a, send_ok) == ~send_ok

\* the switch on audit->state: the FEATURES case runs into failed:, the MTU
\* case only when the send of the feature request fails
data_callback_ends(a, send_ok) ==
    audit[a].state = AUDIT_STATE_FEATURES \/ ~send_ok

l2raw_data_callback(p, n, rsp, send_ok) ==
    LET w == p.src
        a == w.ctx
        T == data_callback_removes(a)
        r == Decoded(audit[a], n, rsp)
    IN  IF p.cond = "NVAL"
        THEN /\ watches' = watches \ {w}
             /\ pending' = pending \ {p}
             /\ last' = Event("data", a, {})
             /\ UNCHANGED <<audits, audit, allocs, chanState, closeCount,
                            freeCount, timers, listeners, crashed>>
        ELSE IF p.cond = "ERRHUP" \/ n < 0
        THEN /\ FailedTeardown(w, a, T)
             /\ pending' = DropPending(pending, T) \ {p}
             /\ last' = Event("data", a, {a})
        ELSE IF data_callback_ends(a, send_ok)
        THEN /\ FailedTeardown(w, a, T)
             /\ pending' = DropPending(pending, T) \ {p}
             /\ last' = DataEvent(a, {a}, r)
        ELSE /\ timers' = g_timeout_remove(timers, T) \cup {Timer(a, AUDIT_STATE_FEATURES)}
             /\ pending' = DropPending(pending, T) \ {p}
             /\ audit' = [audit EXCEPT ![a] =
                    [r EXCEPT !.timeout = Timer(a, AUDIT_STATE_FEATURES),
                              !.state = AUDIT_STATE_FEATURES]]
             /\ last' = DataEvent(a, {}, r)
             /\ UNCHANGED <<audits, allocs, chanState, closeCount, freeCount,
                            watches, listeners, crashed>>

DataCallback ==
    \E p \in pending, n \in {-1, 0, 6, 10}, rsp \in Responses, send_ok \in BOOLEAN :
        /\ ~crashed
        /\ p.src.kind = "data"
        \* recv on a closed descriptor fails
        /\ chanState[p.src.ctx] # "open" => n < 0
        \* recv, the response and send happen only where the handler gets to them
        /\ p.cond # "IN" => n = 10
        /\ (p.cond # "IN" \/ n < 0) => rsp = NoResponse
        /\ (p.cond # "IN" \/ n < 0 \/ audit[p.src.ctx].state # AUDIT_STATE_MTU) => send_ok
        /\ l2raw_data_callback(p, n, rsp, send_ok)

\* ------------------------------------------------------------------ Next
Next ==
    \/ AuditRemoteDevice
    \/ CancelAuditRemoteDevice
    \/ RequestorExited
    \/ Poll
    \/ ConnectComplete
    \/ DataCallback
    \/ InputTimer

Spec == Init /\ [][Next]_vars

\* The daemon with one record waiting behind the gate and the gate clear:
\* the state after an audit was started, a second one was registered
\* without a socket while the first held the connection, and the first
\* has been torn down and its watch retired.  The waiting record is the
\* first struct audit of the behaviour.
InitQueued ==
    /\ \E sender \in Requestors, addr \in Addresses :
        /\ audit = [a \in AuditIds |->
                        IF a = 1 THEN audit_new(sender, addr) ELSE NullAudit]
        /\ listeners = name_listener_add({}, sender, 1)
    /\ audits = slist_append(<<>>, 1)
    /\ allocs = 1
    /\ chanState = [a \in AuditIds |-> "none"]
    /\ closeCount = [a \in AuditIds |-> 0]
    /\ freeCount = [a \in AuditIds |-> 0]
    /\ watches = {}
    /\ timers = {}
    /\ pending = {}
    /\ crashed = FALSE
    /\ last = NoCall

SpecQueued == InitQueued /\ [][Next]_vars

\* ---------------------------------------------------------------- claims
Registered == Range(audits)

StartInputs == Requestors \X AddressArgs \X DbusData \X {"none", "ok", "fail"}

Conflict(address, d) ==
    \/ d.disc_active
    \/ d.pdisc_active /\ ~d.pinq_idle
    \/ d.bonding
    \/ address \in d.pin_reqs

\* C1: in every reachable state at most one record of the registry has a
\* connection (audit->io non-null).
C1_SingleFlight ==
    Cardinality({i \in 1..Len(audits) : audit[audits[i]].io # 0}) <= 1

\* a record holding the connection and a record registered without one
C1_Witness ==
    \E a, b \in Registered : audit[a].io # 0 /\ audit[b].io = 0

\* C2: a start for an address that already has a record is rejected with
\* DuplicateTarget and registers nothing, and the registry never holds two
\* records for one address.
C2_UniqueTargets ==
    /\ [](\A i, j \in 1..Len(audits) :
            audit[audits[i]].addr = audit[audits[j]].addr => i = j)
    /\ [][last'.op = "start" =>
           \A in \in StartInputs :
            (/\ in[2] # 0
             /\ admission(in[2], in[3]) = "ok"
             /\ slist_find(audits, in[2]) # 0
             /\ audit_remote_device(in[1], in[2], in[3], in[4]))
            => (last'.result = "DuplicateTarget" /\ UNCHANGED engine)]_vars

\* C3: every record is freed at most once and its socket is closed exactly
\* once, whichever of the teardown paths run and in whatever order the loop
\* dispatches them.
C3_TornDownOnce ==
    \A a \in AuditIds :
        /\ freeCount[a] <= 1
        /\ closeCount[a] <= 1
        /\ (freeCount[a] = 1 /\ chanState[a] # "none") => closeCount[a] = 1

\* C4: a cancel whose sender is not the requestor of the record found for
\* the address is answered NotAuthorized and changes nothing.
C4_NotAuthorizedUntouched ==
    [][last'.op = "cancel" =>
       \A sender \in Requestors, address \in Addresses :
        (/\ slist_find(audits, address) # 0
         /\ audit[slist_find(audits, address)].requestor # sender
         /\ cancel_audit_remote_device(sender, address))
        => (last'.result = "NotAuthorized" /\ UNCHANGED engine)]_vars

\* a refused cancel of a record that holds the connection and a timer
C4_Witness ==
    /\ last.op = "cancel"
    /\ last.result = "NotAuthorized"
    /\ last.ctx \in Registered
    /\ audit[last.ctx].io # 0
    /\ audit[last.ctx].timeout \in timers

\* C5: whenever the registry holds a record for address T with requestor R,
\* a cancel of T sent by R is acknowledged and tears that record down:
\* connection closed if present, timer removed if present, record out of
\* the registry, listener released, record freed.
C5_OwnerCancelTearsDown ==
    [][last'.op = "cancel" =>
       \A sender \in Requestors, address \in Addresses, a \in Registered :
        (/\ audit[a].addr = address
         /\ audit[a].requestor = sender
         /\ cancel_audit_remote_device(sender, address))
        => (/\ last'.result = "Ack"
            /\ a \notin Range(audits')
            /\ freeCount'[a] = 1
            /\ audit[a].io # 0 => (chanState'[a] = "closed" /\ closeCount'[a] = 1)
            /\ audit[a].timeout \notin timers'
            /\ [name |-> sender, ctx |-> a] \notin listeners')]_vars

\* C6: a timer that expires tears its probe down and removes it from the
\* registry; a probe awaiting an info response has its timer armed; and a
\* timer is registered (or found ready) only for the wait it was armed
\* for: its record is live, registered and still in that wait.
C6_TimerInv ==
    /\ \A t \in timers :
        /\ t.ctx \in Registered
        /\ freeCount[t.ctx] = 0
        /\ chanState[t.ctx] = "open"
        /\ audit[t.ctx].timeout = t
        /\ audit[t.ctx].state = t.st
    /\ \A p \in pending : p.src.kind = "timer" => p.src \in timers
    /\ \A a \in Registered :
        audit[a].io_id = DataWatch(a) => Timer(a, audit[a].state) \in timers

C6_TimeoutDeterminism ==
    [][/\ C6_TimerInv'
       /\ last'.op = "timer" =>
            /\ last'.ctx \in Registered
            /\ audit[last'.ctx].timeout \in timers
            /\ last'.ctx \notin Range(audits')
            /\ freeCount'[last'.ctx] = 1
            /\ chanState'[last'.ctx] = "closed"
            /\ \A t \in timers' : t.ctx # last'.ctx]_vars

\* a timer expired on a probe that held the connection, and the probe is
\* gone
C6_Witness ==
    /\ last.op = "timer"
    /\ last.ctx \notin Registered
    /\ freeCount[last.ctx] = 1
    /\ closeCount[last.ctx] = 1

\* C7: when requestor R exits, every record of R is torn down as by a
\* cancel (connection closed if present, timer removed if present, out of
\* the registry, freed); no record of R remains and the records of other
\* requestors are unchanged.
C7_RequestorExitTeardown ==
    [][last'.op = "exit" =>
       \A name \in Requestors :
        requestor_exited(name) =>
            /\ \A a \in Registered :
                IF audit[a].requestor = name
                THEN /\ a \notin Range(audits')
                     /\ freeCount'[a] = 1
                     /\ audit[a].io # 0 =>
                            (chanState'[a] = "closed" /\ closeCount'[a] = 1)
                     /\ audit[a].timeout \notin timers'
                     /\ \A p \in pending' : p.src # audit[a].timeout
                ELSE /\ audit'[a] = audit[a]
                     /\ chanState'[a] = chanState[a]
                     /\ freeCount'[a] = 0
                     /\ audit[a].timeout # NoSrc => audit[a].timeout \in timers'
            /\ audits' = SelectSeq(audits, LAMBDA x : audit[x].requestor # name)
            /\ \A l \in listeners' : l \in listeners /\ l.name # name]_vars

\* a requestor left: its record that held the connection and a timer is
\* gone while a record of another requestor stays
C7_Witness ==
    /\ last.op = "exit"
    /\ \E a \in last.torn : closeCount[a] = 1 /\ freeCount[a] = 1
    /\ Len(audits) >= 1

\* C8: a start refused at admission (discovery or unfinished periodic
\* inquiry, bonding, pending PIN request for the target) returns the error
\* and leaves the engine unchanged: no record, socket, watch, listener or
\* timer is added.  (l2raw_connect is not reached: sk is "none".)
C8_RejectedStartUnchanged ==
    [][last'.op = "start" =>
       \A in \in StartInputs :
        \/ in[4] # "none"
        \/ in[2] = 0
        \/ ~Conflict(in[2], in[3])
        \/ /\ last'.result =
                  (IF in[3].disc_active \/ (in[3].pdisc_active /\ ~in[3].pinq_idle)
                   THEN "DiscoverInProgress" ELSE "BondingInProgress")
            /\ UNCHANGED engine
        \/ ~audit_remote_device(in[1], in[2], in[3], in[4])]_vars

\* a start refused for discovery while a probe is connected
C8_Witness ==
    /\ last.op = "start"
    /\ last.result = "DiscoverInProgress"
    /\ \E a \in Registered : audit[a].io # 0

\* C9: with the gate clear, a start whose socket cannot be opened returns
\* ConnectionAttemptFailed and nothing of the probe remains.
C9_ConnectFailureLeavesNothing ==
    [][(last'.op = "start" /\ ~audit_in_progress) =>
       \A in \in StartInputs :
        \/ in[4] # "fail"
        \/ in[2] = 0
        \/ Conflict(in[2], in[3])
        \/ /\ last'.result = "ConnectionAttemptFailed"
            /\ UNCHANGED engine
        \/ ~audit_remote_device(in[1], in[2], in[3], in[4])]_vars

\* the socket could not be opened although the registry was not empty
C9_Witness ==
    /\ last.op = "start"
    /\ last.result = "ConnectionAttemptFailed"
    /\ Len(audits) >= 1

\* C10: the record is registered and the empty reply sent in one step,
\* before any event of the probe; no callback of the probe sends anything.
C10_FireAndForget ==
    [][/\ \A a \in AuditIds :
            (a \notin Registered /\ a \in Range(audits')) =>
                /\ last' = [Event("start", a, {}) EXCEPT !.result = "Ack"]
                /\ audit'[a].timeout = NoSrc
                /\ audit'[a].state = AUDIT_STATE_MTU
                /\ \A p \in pending' : p.src.ctx # a
       /\ (last'.op = "start" /\ last'.result = "Ack") =>
            (last'.ctx \notin Registered /\ last'.ctx \in Range(audits'))
       /\ last'.op \in {"poll", "connect", "data", "timer", "exit"} =>
            last'.result = "none"]_vars

\* an admitted start, acknowledged, with its connect still in progress
C10_Witness ==
    /\ last.op = "start"
    /\ last.result = "Ack"
    /\ audit[last.ctx].io_id = ConnectWatch(last.ctx)
    /\ ConnectWatch(last.ctx) \in watches

\* C11: in the MTU step, on a response received whole, the MTU is recorded
\* if and only if the result code is 0x0000, and then with the value of the
\* payload; whatever the result code the probe goes on: once the feature
\* request is sent the record is still registered, connected and watched,
\* awaits the feature response and has its timer armed.  Only a failed send
\* of the feature request ends the probe in this step.
C11_MtuStep ==
    [][last'.op = "data" =>
       \A p \in pending, rsp \in Responses, send_ok \in BOOLEAN :
        (/\ p.src.kind = "data"
         /\ p.cond = "IN"
         /\ chanState[p.src.ctx] = "open"
         /\ audit[p.src.ctx].state = AUDIT_STATE_MTU
         /\ l2raw_data_callback(p, RecvSize, rsp, send_ok))
        => LET a == p.src.ctx
           IN  /\ ~audit[a].got_mtu
               /\ last'.got = (rsp.result = 0)
               /\ last'.got => last'.val = rsp.data
               /\ IF send_ok
                  THEN /\ a \in Range(audits')
                       /\ last'.torn = {}
                       /\ audit'[a].state = AUDIT_STATE_FEATURES
                       /\ audit'[a].got_mtu = (rsp.result = 0)
                       /\ audit'[a].got_mtu => audit'[a].mtu = rsp.data
                       /\ chanState'[a] = "open"
                       /\ DataWatch(a) \in watches'
                       /\ Timer(a, AUDIT_STATE_FEATURES) \in timers'
                  ELSE last'.torn = {a}]_vars

\* an MTU response with a result code other than 0x0000 was handled: no
\* MTU is recorded and the probe awaits the feature response
C11_Witness ==
    /\ last.op = "data"
    /\ last.ctx \in Registered
    /\ audit[last.ctx].state = AUDIT_STATE_FEATURES
    /\ ~audit[last.ctx].got_mtu
    /\ Timer(last.ctx, AUDIT_STATE_FEATURES) \in timers

\* C12: a response shorter than the command header plus the result code
\* (a read of zero bytes included) is reported as truncated: the callback
\* that receives it populates neither the MTU nor the feature mask.
C12_TruncatedNotDecoded ==
    [][last'.op = "data" =>
       \A p \in pending, n \in 0..(L2CAP_CMD_HDR_SIZE + L2CAP_INFO_RSP_SIZE - 1),
          rsp \in Responses, send_ok \in BOOLEAN :
        (/\ p.src.kind = "data"
         /\ p.cond = "IN"
         /\ chanState[p.src.ctx] = "open"
         /\ l2raw_data_callback(p, n, rsp, send_ok))
        => (/\ ~last'.got
            /\ last'.ctx \in Range(audits') =>
                (~audit'[last'.ctx].got_mtu /\ ~audit'[last'.ctx].got_mask))]_vars

\* C13: a cancel for an address that has no record in the registry is
\* answered NotInProgress and changes nothing: the registry, the records,
\* the connections, the watches, the timers and the listeners stay as
\* they were.
C13_CancelUnknownTarget ==
    [][last'.op = "cancel" =>
       \A sender \in Requestors, address \in Addresses :
        (/\ \A a \in Registered : audit[a].addr # address
         /\ cancel_audit_remote_device(sender, address))
        => (last'.result = "NotInProgress" /\ UNCHANGED engine)]_vars

\* a cancel answered NotInProgress while a connected probe of another
\* address, with its timer armed, is registered
C13_Witness ==
    /\ last.op = "cancel"
    /\ last.result = "NotInProgress"
    /\ \E a \in Registered : audit[a].io # 0 /\ audit[a].timeout \in timers

\* C14: every teardown releases the I/O watch of the record in the same
\* step: no I/O watch is ever registered for a record that has been
\* freed or is out of the registry, and no connect or data callback runs
\* on a freed record.
C14_WatchReleasedOnTeardown ==
    /\ [](\A w \in watches : w.ctx \in Registered /\ freeCount[w.ctx] = 0)
    /\ [][last'.op \in {"connect", "data"} => freeCount[last'.ctx] = 0]_vars

\* C15 (as claimed): a registered record has its timeout set if and only
\* if it waits on the network, that is from the moment it has a socket:
\* while the connect is in progress and while it awaits the MTU or the
\* feature response.
C15_TimeoutWhileWaiting ==
    \A a \in Registered : (audit[a].timeout # NoSrc) <=> (audit[a].io # 0)

\* C15 (amended): a registered record has its timeout set if and only if
\* it awaits the MTU or the feature response, that is once the connect
\* has completed and its data watch is registered; the timeout is then the
\* registered timer of its current wait.  While the connect is in progress
\* or the record has no socket, it has no timeout and no timer of it is
\* registered, so no timeout can occur in that state.
C15_TimeoutOnlyForInfoResponse ==
    \A a \in Registered :
        /\ (audit[a].timeout # NoSrc) <=> (audit[a].io_id = DataWatch(a))
        /\ audit[a].timeout # NoSrc =>
            /\ audit[a].timeout = Timer(a, audit[a].state)
            /\ audit[a].timeout \in timers
        /\ audit[a].timeout = NoSrc => \A t \in timers : t.ctx # a
        /\ audit[a].io_id = NoSrc <=> audit[a].io = 0

\* a probe whose connect is in progress (socket open, connect watch
\* registered) with no timeout, next to none registered at all
C15_Witness ==
    \E a \in Registered :
        /\ audit[a].io # 0
        /\ audit[a].io_id = ConnectWatch(a)
        /\ ConnectWatch(a) \in watches
        /\ audit[a].timeout = NoSrc
        /\ timers = {}

\* a registered record without a socket has no channel, no watch, no
\* timer and no source found ready
Queued(a) ==
    /\ a \in Registered
    /\ audit[a].io = 0

QueuedIdle(a) ==
    /\ audit[a].io_id = NoSrc
    /\ audit[a].timeout = NoSrc
    /\ chanState[a] = "none"
    /\ freeCount[a] = 0
    /\ \A w \in watches : w.ctx # a
    /\ \A t \in timers : t.ctx # a
    /\ \A p \in pending : p.src.ctx # a

\* C16: a record registered while the gate is held gets no socket, and a
\* registered record without a socket never gets a connection, a watch or
\* a timer in any later step, whether or not the gate has cleared; it
\* leaves the registry only by a cancel of its address sent by its own
\* requestor or by the exit of its requestor.
C16_QueuedNeverStarts ==
    [][/\ \A a \in AuditIds :
            (a \notin Registered /\ a \in Range(audits') /\ audit_in_progress)
                => audit'[a].io = 0
       /\ \A a \in Registered :
            Queued(a) =>
                /\ QueuedIdle(a)
                /\ IF a \in Range(audits')
                   THEN audit'[a] = audit[a] /\ QueuedIdle(a)'
                   ELSE /\ last'.op \in {"cancel", "exit"}
                        /\ a \in last'.torn
                        /\ freeCount'[a] = 1
                        /\ last'.op = "cancel" =>
                            \A sender \in Requestors, address \in Addresses :
                                cancel_audit_remote_device(sender, address) =>
                                    (sender = audit[a].requestor
                                     /\ address = audit[a].addr)
                        /\ last'.op = "exit" =>
                            \A name \in Requestors :
                                requestor_exited(name) => name = audit[a].requestor]_vars

\* the probe that held the connection is gone, the gate is clear, and a
\* record registered behind it is still in the registry with nothing
C16_Witness ==
    /\ ~audit_in_progress
    /\ \E b \in AuditIds : freeCount[b] = 1 /\ closeCount[b] = 1
    /\ \E a \in Registered : Queued(a) /\ QueuedIdle(a)

\* how far the probe of a struct audit has come: 1 before its connect has
\* completed, 2 awaiting the MTU response (MTU request sent), 3 awaiting
\* the feature response (feature request sent), 4 destroyed
Stage(a) ==
    IF freeCount[a] > 0 THEN 4
    ELSE IF audit[a].io_id # DataWatch(a) THEN 1
    ELSE IF audit[a].state = AUDIT_STATE_MTU THEN 2
    ELSE 3

\* C17: the steps of a probe happen in one order, each at most once: the
\* connect completion (which sends the MTU request), the MTU response
\* (which sends the feature request), the feature response (which
\* destroys the record).  A step moves the probe to the next stage or
\* destroys it, no step other than the expected callback advances it,
\* the protocol state never moves backwards, and the callback that handles
\* the feature response always destroys the record.
C17_StepsInOrder ==
    [][\A a \in AuditIds :
        /\ Stage(a)' \in {Stage(a), Stage(a) + 1, 4}
        /\ (a \in Registered /\ a \in Range(audits')) =>
                audit'[a].state >= audit[a].state
        /\ (Stage(a) = 1 /\ Stage(a)' = 2) =>
                (/\ last'.op = "connect" /\ last'.ctx = a
                 /\ audit[a].io_id = ConnectWatch(a)
                 /\ Timer(a, AUDIT_STATE_MTU) \in timers')
        /\ (Stage(a) = 2 /\ Stage(a)' = 3) =>
                (/\ last'.op = "data" /\ last'.ctx = a
                 /\ Timer(a, AUDIT_STATE_FEATURES) \in timers')
        /\ (last'.op = "connect" /\ last'.ctx = a /\ freeCount[a] = 0) =>
                (Stage(a) = 1 /\ Stage(a)' \in {2, 4})
        /\ (last'.op = "data" /\ last'.ctx = a /\ freeCount[a] = 0) =>
                (/\ Stage(a) \in {2, 3}
                 /\ Stage(a)' > Stage(a)
                 /\ Stage(a) = 3 => (a \notin Range(audits') /\ last'.torn = {a}))]_vars

\* the MTU response of a probe was handled after its connect completed:
\* the probe now awaits the feature response
C17_Witness ==
    /\ last.op = "data"
    /\ Stage(last.ctx) = 3
    /\ last.ctx \in Registered
    /\ audit[last.ctx].got_mtu

\* the timers of the struct audit a that the main loop still holds
TimersOf(ts, a) == {t \in ts : t.ctx = a}

\* C18: a record never has more than one outstanding timer: when a step
\* schedules a timer for a record (after the MTU request or after the
\* feature request is sent), every earlier timer of that record has been
\* removed and is not among the sources still to be dispatched, and the
\* new timer is the one the record refers to.
C18_OneTimer ==
    [][\A a \in AuditIds :
        /\ Cardinality(TimersOf(timers', a)) <= 1
        /\ \A t \in TimersOf(timers', a) \ timers :
            /\ last'.op \in {"connect", "data"}
            /\ last'.ctx = a
            /\ audit'[a].timeout = t
            /\ TimersOf(timers, a) \cap timers' = {}
            /\ \A p \in pending' : p.src.ctx = a => p.src.kind # "timer"]_vars

\* the feature request was sent and its timer scheduled: the timer of
\* the MTU wait is gone
C18_Witness ==
    /\ last.op = "data"
    /\ last.torn = {}
    /\ TimersOf(timers, last.ctx) = {Timer(last.ctx, AUDIT_STATE_FEATURES)}
    /\ audit[last.ctx].timeout = Timer(last.ctx, AUDIT_STATE_FEATURES)

\* the name listeners whose callback data is the struct audit a
ListenersOf(a) == {l \in listeners : l.ctx = a}

C20_GateFollowsConnections ==
    [][/\ audit_in_progress' <=>
            \E a \in Range(audits') :
                audit'[a].io # 0 /\ chanState'[a] = "open" /\ freeCount'[a] = 0
       /\ (last'.op = "start" /\ \A a \in Registered : audit[a].io = 0) =>
            \A in \in StartInputs :
                \/ in[4] = "fail"
                \/ in[2] = 0
                \/ Conflict(in[2], in[3])
                \/ /\ last'.result = "Ack"
                   /\ last'.ctx \notin Registered
                   /\ last'.ctx \in Range(audits')
                   /\ audit'[last'.ctx].io # 0
                   /\ chanState'[last'.ctx] = "open"
                   /\ ConnectWatch(last'.ctx) \in watches'
                \/ ~audit_remote_device(in[1], in[2], in[3], in[4])]_vars

\* a start has just obtained the connection although a record registered
\* before it is still waiting without one
C20_Witness ==
    /\ last.op = "start"
    /\ last.ctx \in Registered
    /\ audit[last.ctx].io # 0
    /\ \E b \in Registered : b < last.ctx /\ audit[b].io = 0

====
